---- MODULE Spec2Model ----
(***************************************************************************)
(* The resumable upgrade orchestrator: commands/upgrade/__init__.py,       *)
(* upgrade().  One process invocation is a walk of pc through the body of  *)
(* upgrade(); the durable state (execution records, audit checkpoints,     *)
(* archived environment) survives the end of a process, the rest is reset  *)
(* by the next invocation.  The helpers of leapp.cli.commands.upgrade.util *)
(* and the Workflow object are modelled by their contracts.                *)
(*                                                                         *)
(* The MySQL repository setup actor: clmysqlrepositorysetup.py, process(). *)
(* One run of process() is a walk over the entries of the repository       *)
(* directory, one loop iteration per step, then the code after the loop.   *)
(* It has its own specification, SpecActor.                                *)
(***************************************************************************)
EXTENDS Naturals, Sequences, FiniteSets

\* ---------------------------------------------------------------- bounds
MaxInvocations == 3   \* process invocations in one behaviour
NumPhases      == 3   \* phases of the pipeline
MaxErrors      == 1   \* errors the pipeline may report in one run
MaxFiles       == 2   \* entries of the repository directory
MaxRepos       == 2   \* repositories in one repofile

VARIABLES
    executions,        \* durable: the stored Execution Records, oldest first
    audit,             \* durable: context -> last phase with a checkpoint (0: none)
    archive,           \* durable: context -> archived environment snapshot
    invocations,       \* number of process invocations so far (also the uuid source)
    pc,                \* position of the running process in upgrade()
    args,              \* the arguments upgrade() reads after line 44
    uid,               \* os.getuid() of this invocation
    env,               \* os.environ of this process
    context,           \* local `context'  (0: None)
    configuration,     \* local `configuration'
    skip_phases_until, \* local `skip_phases_until' (0: None)
    only_with_tags,    \* local `only_with_tags'
    logs_archived,     \* util.archive_logfiles() was called in this invocation
    workflow,          \* the Workflow object of this invocation
    outcome            \* what the invocation reported and how it ended

VARIABLES
    apc,               \* position of process(): "off", "listing", "done", "crashed"
    entries,           \* directory entries the loop of line 51 has seen
    governor,          \* what get_clmysql_type() returns on this host
    mysql_types,       \* local `mysql_types'
    clmysql_type,      \* local `clmysql_type'
    custom_repo_msgs,  \* local `custom_repo_msgs'
    produced,          \* the messages given to api.produce, in order
    reports,           \* the reports given to reporting.create_report, in order
    parsed             \* the repositories of the repofiles parsed so far, in order

upgradeVars == <<executions, audit, archive, invocations, pc, args, uid, env,
                 context, configuration, skip_phases_until, only_with_tags,
                 logs_archived, workflow, outcome>>

actorVars == <<apc, entries, governor, mysql_types, clmysql_type,
               custom_repo_msgs, produced, reports, parsed>>

vars == <<upgradeVars, actorVars>>

durable == <<executions, audit, archive>>

\* ------------------------------------------------------------ value sets
None    == 0
OldId   == MaxInvocations + 1       \* the id of an upgrade attempt of the past
Ids     == 1..(MaxInvocations + 1)
Contexts == {None} \cup Ids        \* the keys of the audit log and the archive
Phases  == 1..NumPhases
Flag    == {"unset", "0", "1"}
Locale  == "en_US.UTF-8"

\* The initial environment of a process: the flags as the caller exported them
\* and no execution identity, or an identity left over from the past in a
\* shell that exports no flag.
InitialEnvs ==
    [LEAPP_DEBUG : Flag, LEAPP_VERBOSE : Flag, LEAPP_EXECUTION_ID : {None},
     LC_ALL : {"host"}, LANG : {"host"}]
    \cup
    [LEAPP_DEBUG : {"unset"}, LEAPP_VERBOSE : {"unset"},
     LEAPP_EXECUTION_ID : {OldId}, LC_ALL : {"host"}, LANG : {"host"}]

NoSnapshot ==
    [archived |-> FALSE, LEAPP_DEBUG |-> "unset", LEAPP_VERBOSE |-> "unset",
     LEAPP_EXECUTION_ID |-> None, LC_ALL |-> "unset", LANG |-> "unset"]

EmptyConfiguration == [debug |-> "unset", verbose |-> "unset"]

NewWorkflow ==
    [loaded |-> FALSE, saved |-> FALSE, ran |-> FALSE, returned |-> FALSE,
     raised |-> FALSE, run_context |-> None, run_skip |-> None,
     run_tags |-> "None", phase |-> 0, executed |-> {}, errors |-> 0,
     failure |-> FALSE]

NoOutcome ==
    [error |-> "none", reported |-> FALSE, reported_errors |-> 0,
     reported_fail |-> FALSE, exit |-> "none"]

\* The arguments of an invocation.  only_with_tags and resume_context are the
\* ones the rerun call adds; "absent" and None stand for their absence.
ArgsSet ==
    [resume : BOOLEAN, resume_context : {None} \cup Ids,
     only_with_tags : {"absent", "tag"}, debug : BOOLEAN, verbose : BOOLEAN]

NoArgs == [resume |-> FALSE, resume_context |-> None]

Live == {"branch", "configure", "load_answers", "run", "running",
         "boundary", "save_answers", "report", "exit"}

\* An upgrade attempt of the past that ran to its end: its record, its last
\* checkpoint and its archived environment are still in the store.
OldExecution ==
    [context |-> OldId, kind |-> "upgrade",
     configuration |-> [debug |-> "0", verbose |-> "1"]]

OldSnapshot ==
    [archived |-> TRUE, LEAPP_DEBUG |-> "0", LEAPP_VERBOSE |-> "1",
     LEAPP_EXECUTION_ID |-> OldId, LC_ALL |-> Locale, LANG |-> Locale]

\* The store is empty, or holds one finished attempt of the past.
UpgradeIdle(old) ==
    /\ executions = IF old THEN <<OldExecution>> ELSE <<>>
    /\ audit = [c \in Contexts |-> IF old /\ c = OldId THEN NumPhases ELSE 0]
    /\ archive = [c \in Contexts |-> IF old /\ c = OldId THEN OldSnapshot
                                     ELSE NoSnapshot]
    /\ invocations = 0
    /\ pc = "idle"
    /\ args = NoArgs
    /\ uid = 0
    /\ env = [LEAPP_DEBUG |-> "unset", LEAPP_VERBOSE |-> "unset",
              LEAPP_EXECUTION_ID |-> None, LC_ALL |-> "host", LANG |-> "host"]
    /\ context = None
    /\ configuration = EmptyConfiguration
    /\ skip_phases_until = None
    /\ only_with_tags = "None"
    /\ logs_archived = FALSE
    /\ workflow = NewWorkflow
    /\ outcome = NoOutcome

\* lines 47-49: the locals of process() before the loop.
ActorLocals ==
    /\ entries = 0
    /\ mysql_types = {}
    /\ clmysql_type = "None"
    /\ custom_repo_msgs = <<>>
    /\ produced = <<>>
    /\ reports = <<>>
    /\ parsed = <<>>

Init ==
    /\ \E old \in BOOLEAN : UpgradeIdle(old)
    /\ apc = "off"
    /\ governor = "None"
    /\ ActorLocals

\* The memory of a process that was killed is gone: only the durable state
\* is left for the next invocation.
ProcessGone ==
    /\ args' = NoArgs
    /\ uid' = 0
    /\ env' = [LEAPP_DEBUG |-> "unset", LEAPP_VERBOSE |-> "unset",
               LEAPP_EXECUTION_ID |-> None, LC_ALL |-> "host", LANG |-> "host"]
    /\ context' = None
    /\ configuration' = EmptyConfiguration
    /\ skip_phases_until' = None
    /\ only_with_tags' = "None"
    /\ logs_archived' = FALSE
    /\ workflow' = NewWorkflow
    /\ outcome' = NoOutcome

\* ------------------------------------------------- helpers of upgrade()

\* str(uuid.uuid4()): a token no earlier invocation has drawn.
uuid4(n) == n + 1

\* util.prepare_configuration(args): the options of this invocation.
prepare_configuration(a) ==
    [debug   |-> IF a.debug THEN "1" ELSE "0",
     verbose |-> IF a.verbose THEN "1" ELSE "0"]

\* A store that is lost: nothing is appended.
StoreExecution_Lost(execs, ctx, conf) == execs

\* A store that writes the record twice.
StoreExecution_Twice(execs, ctx, conf) ==
    execs \o << [context |-> ctx, kind |-> "upgrade", configuration |-> conf],
               [context |-> ctx, kind |-> "upgrade", configuration |-> conf] >>

\* Execution(context, kind='upgrade', configuration).store()
StoreExecution(execs, ctx, conf) ==
    Append(execs, [context |-> ctx, kind |-> "upgrade", configuration |-> conf])

\* util.fetch_last_upgrade_context(use_context): the record of use_context when
\* one is given, otherwise the most recent execution of kind 'upgrade';
\* (None, {}) when there is none.
fetch_last_upgrade_context(execs, use_context) ==
    LET hits == IF use_context # None
                THEN {i \in DOMAIN execs : execs[i].context = use_context}
                ELSE {i \in DOMAIN execs : execs[i].kind = "upgrade"}
    IN  IF hits = {}
        THEN [context |-> None, configuration |-> EmptyConfiguration]
        ELSE LET last == CHOOSE i \in hits : \A j \in hits : j <= i
             IN  [context |-> execs[last].context,
                  configuration |-> execs[last].configuration]

\* The resumed process keeps the uuid it drew at line 34.
ResumedContext_Generated(found, generated) ==
    IF found.context = None THEN None ELSE generated

\* The missing record goes unnoticed.
NoPreviousRun_Never(ctx) == FALSE

\* line 50: context, configuration = util.fetch_last_upgrade_context(...)
\* replaces the uuid drawn at line 34.
ResumedContext(found, generated) == found.context

\* lines 51-53: `if not context: raise CommandError(...)'
NoPreviousRun(ctx) == ctx = None

\* util.check_env_and_conf(env_var, conf_var, configuration)
check_env_and_conf(env_value, conf_value) ==
    env_value = "1" \/ conf_value = "1"

\* line 54: os.environ['LEAPP_DEBUG'] = '1' if check_env_and_conf(...) else '0'
DeriveDebug(e, conf) ==
    [e EXCEPT !.LEAPP_DEBUG =
        IF check_env_and_conf(e.LEAPP_DEBUG, conf.debug) THEN "1" ELSE "0"]

\* lines 56-59: verbose is '1' when debug is '1' or check_env_and_conf(...)
DeriveVerbose(e, conf) ==
    [e EXCEPT !.LEAPP_VERBOSE =
        IF e.LEAPP_DEBUG = "1" \/ check_env_and_conf(e.LEAPP_VERBOSE, conf.verbose)
        THEN "1" ELSE "0"]

\* The environment checkpoint of a process environment: every variable of the
\* allowlist that is set.
Snapshot(e) ==
    [archived |-> TRUE, LEAPP_DEBUG |-> e.LEAPP_DEBUG,
     LEAPP_VERBOSE |-> e.LEAPP_VERBOSE,
     LEAPP_EXECUTION_ID |-> e.LEAPP_EXECUTION_ID, LC_ALL |-> e.LC_ALL,
     LANG |-> e.LANG]

\* util.restore_leapp_env_vars(context): every variable the snapshot covers is
\* overwritten, the others are left alone; a missing snapshot changes nothing.
restore_leapp_env_vars(e, snap) ==
    IF ~snap.archived THEN e
    ELSE [LEAPP_DEBUG |-> IF snap.LEAPP_DEBUG = "unset" THEN e.LEAPP_DEBUG
                          ELSE snap.LEAPP_DEBUG,
          LEAPP_VERBOSE |-> IF snap.LEAPP_VERBOSE = "unset" THEN e.LEAPP_VERBOSE
                            ELSE snap.LEAPP_VERBOSE,
          LEAPP_EXECUTION_ID |-> IF snap.LEAPP_EXECUTION_ID = None
                                 THEN e.LEAPP_EXECUTION_ID
                                 ELSE snap.LEAPP_EXECUTION_ID,
          LC_ALL |-> IF snap.LC_ALL = "unset" THEN e.LC_ALL ELSE snap.LC_ALL,
          LANG |-> IF snap.LANG = "unset" THEN e.LANG ELSE snap.LANG]

\* lines 54-60: the flags are derived, then the checkpoint is restored over them.
ResumeEnvironment(e, conf, snap) ==
    restore_leapp_env_vars(DeriveVerbose(DeriveDebug(e, conf), conf), snap)

\* util.get_last_phase(context): the last phase with a checkpoint, or None.
get_last_phase(aud, ctx) == aud[ctx]

\* The marker names the phase after the last completed one.
ResumeMarker_Next(aud, ctx) ==
    IF aud[ctx] < NumPhases THEN aud[ctx] + 1 ELSE aud[ctx]

\* The marker is dropped: the resumed run starts over.
ResumeMarker_Restart(aud, ctx) == None

\* line 61: skip_phases_until = util.get_last_phase(context)
ResumeMarker(aud, ctx) == get_last_phase(aud, ctx)

\* The callers of upgrade(): the command line defines no tag option (lines
\* 17-30), the rerun call adds the tags and does so with a resume context.
FromCaller(a) == a.only_with_tags # "absent" => a.resume

\* line 43: `args.only_with_tags if 'only_with_tags' in args else None'
OnlyWithTags(a) ==
    IF a.only_with_tags = "absent" THEN "None" ELSE a.only_with_tags

\* The execution identity is not exported.
SetExecutionId_Keep(e, ctx) == e

\* line 68: os.environ['LEAPP_EXECUTION_ID'] = context
SetExecutionId(e, ctx) == [e EXCEPT !.LEAPP_EXECUTION_ID = ctx]

\* Only LANG is forced.
SetLocale_LangOnly(e) == [e EXCEPT !.LANG = Locale]

\* lines 84-85: the locale pair
SetLocale(e) == [e EXCEPT !.LC_ALL = Locale, !.LANG = Locale]

\* The tag filter is dropped on the way to workflow.run.
RunArguments_NoTags(ctx, skip, tags) ==
    [context |-> ctx, skip_phases_until |-> skip, only_with_tags |-> "None"]

\* lines 86-87: the keyword arguments of workflow.run
RunArguments(ctx, skip, tags) ==
    [context |-> ctx, skip_phases_until |-> skip, only_with_tags |-> tags]

\* The answers are saved on success only.
save_answers_OnSuccess(wf) ==
    IF wf.failure THEN wf ELSE [wf EXCEPT !.saved = TRUE]

\* lines 89-90: workflow.save_answers(answerfile_path, userchoices_path)
save_answers(wf) == [wf EXCEPT !.saved = TRUE]

\* lines 80-81: workflow.load_answers(answerfile_path, userchoices_path)
load_answers(wf) == [wf EXCEPT !.loaded = TRUE]

\* The failure of the pipeline is not turned into an exit code.
ExitCode_AlwaysZero(wf) == "0"

\* lines 98-99: sys.exit(1) on workflow.failure, a plain return otherwise
ExitCode(wf) == IF wf.failure THEN "1" ELSE "0"

\* ------------------------------------------------------------- actions

\* The privilege check lets everybody pass.
NotRoot_Never(u) == FALSE

\* lines 46-47: `if os.getuid(): raise CommandError(...)'
NotRoot(u) == u # 0

\* A new process enters upgrade(): lines 33-47.
Invoke ==
    /\ UNCHANGED actorVars
    /\ pc \in {"idle", "killed"}
    /\ invocations < MaxInvocations
    /\ \E a \in ArgsSet, e \in InitialEnvs, u \in {0, 1000} :
        /\ a.resume_context <= invocations + 1 \/ a.resume_context = OldId
        /\ a.resume_context # None => a.resume
        /\ FromCaller(a)
        \* single active upgrade per host: one fresh attempt is in flight
        /\ ~a.resume => \A i \in DOMAIN executions : executions[i].context = OldId
        /\ args' = [resume |-> a.resume, resume_context |-> a.resume_context]
        /\ env' = e
        /\ uid' = u
        /\ configuration' = prepare_configuration(a)
        /\ only_with_tags' = OnlyWithTags(a)
        /\ IF NotRoot(u)
           THEN /\ pc' = "error"
                /\ outcome' = [NoOutcome EXCEPT !.error = "permission"]
           ELSE /\ pc' = "branch"
                /\ outcome' = NoOutcome
    /\ invocations' = invocations + 1
    /\ context' = uuid4(invocations)
    /\ skip_phases_until' = None
    /\ logs_archived' = FALSE
    /\ workflow' = NewWorkflow
    /\ UNCHANGED durable

\* The configuration prepared from the command line survives the lookup.
ResumedConfiguration_FromArgs(found, prepared) == prepared

\* line 50: `context, configuration = util.fetch_last_upgrade_context(...)'
\* rebinds the configuration prepared at line 37 to the stored one.
ResumedConfiguration(found, prepared) == found.configuration

\* lines 49-61
Resume ==
    /\ UNCHANGED actorVars
    /\ pc = "branch"
    /\ args.resume
    /\ LET found == fetch_last_upgrade_context(executions, args.resume_context)
       IN  /\ context' = ResumedContext(found, context)
           /\ configuration' = ResumedConfiguration(found, configuration)
           /\ IF NoPreviousRun(context')
              THEN /\ pc' = "error"
                   /\ outcome' = [outcome EXCEPT !.error = "no_resumable"]
                   /\ UNCHANGED <<env, skip_phases_until>>
              ELSE /\ env' = ResumeEnvironment(env, configuration',
                                               archive[context'])
                   /\ skip_phases_until' = ResumeMarker(audit, context')
                   /\ pc' = "configure"
                   /\ UNCHANGED outcome
    /\ UNCHANGED <<durable, invocations, args, uid, only_with_tags, logs_archived,
                   workflow>>

\* The housekeeping step also writes the environment checkpoint of ctx.
archive_logfiles_Checkpoint(arch, ctx, e) ==
    [arch EXCEPT ![ctx] =
        [archived |-> TRUE, LEAPP_DEBUG |-> e.LEAPP_DEBUG,
         LEAPP_VERBOSE |-> e.LEAPP_VERBOSE,
         LEAPP_EXECUTION_ID |-> e.LEAPP_EXECUTION_ID, LC_ALL |-> e.LC_ALL,
         LANG |-> e.LANG]]

\* line 65: `util.archive_logfiles()' is called without the context, before
\* the execution identity is exported (line 68): it rotates the log files and
\* leaves the checkpoints of every execution as they are.
archive_logfiles(arch, ctx, e) == arch

\* lines 62-65
Fresh ==
    /\ UNCHANGED actorVars
    /\ pc = "branch"
    /\ ~args.resume
    /\ executions' = StoreExecution(executions, context, configuration)
    /\ archive' = archive_logfiles(archive, context, env)
    /\ logs_archived' = TRUE
    /\ pc' = "configure"
    /\ UNCHANGED <<audit, invocations, args, uid, env, context,
                   configuration, skip_phases_until, only_with_tags, workflow,
                   outcome>>

\* lines 67-78: the execution identity is exported, the repositories loaded.
Configure ==
    /\ UNCHANGED actorVars
    /\ pc = "configure"
    /\ env' = SetExecutionId(env, context)
    /\ \E loaded \in BOOLEAN :
        IF loaded
        THEN pc' = "load_answers" /\ UNCHANGED outcome
        ELSE pc' = "error" /\ outcome' = [outcome EXCEPT !.error = "repositories"]
    /\ UNCHANGED <<durable, invocations, args, uid, context, configuration,
                   skip_phases_until, only_with_tags, logs_archived, workflow>>

\* lines 80-85
LoadAnswers ==
    /\ UNCHANGED actorVars
    /\ pc = "load_answers"
    /\ workflow' = load_answers(workflow)
    /\ env' = SetLocale(env)
    /\ pc' = "run"
    /\ UNCHANGED <<durable, invocations, args, uid, context, configuration,
                   skip_phases_until, only_with_tags, logs_archived, outcome>>

\* lines 86-87: workflow.run is entered.
RunStart ==
    /\ UNCHANGED actorVars
    /\ pc = "run"
    /\ LET kw == RunArguments(context, skip_phases_until, only_with_tags)
       IN  workflow' = [workflow EXCEPT !.ran = TRUE,
                                        !.run_context = kw.context,
                                        !.run_skip = kw.skip_phases_until,
                                        !.run_tags = kw.only_with_tags,
                                        !.phase = kw.skip_phases_until]
    /\ pc' = "running"
    /\ UNCHANGED <<durable, invocations, args, uid, env, context, configuration,
                   skip_phases_until, only_with_tags, logs_archived, outcome>>

\* ------------------------------------------ the pipeline, inside workflow.run

\* Phase p of the pipeline is entered: the phases after skip_phases_until run
\* in order.  The first phase writes the environment checkpoint of the
\* execution (last write wins).
EnterPhase(arch, ctx, e, p) ==
    IF p = 1 THEN [arch EXCEPT ![ctx] = Snapshot(e)] ELSE arch

\* A phase that completed leaves a checkpoint in the audit log.
CheckpointPhase(aud, ctx, p) == [aud EXCEPT ![ctx] = p]

\* A phase completes, with or without an error reported under a report-only
\* policy, and the run goes on.
PhaseCompletes ==
    /\ UNCHANGED actorVars
    /\ pc = "running"
    /\ workflow.phase < NumPhases
    /\ LET p == workflow.phase + 1
       IN  /\ archive' = EnterPhase(archive, workflow.run_context, env, p)
           /\ audit' = CheckpointPhase(audit, workflow.run_context, p)
           /\ \E err \in {0, 1} :
                /\ workflow.errors + err <= MaxErrors
                /\ workflow' = [workflow EXCEPT
                                  !.phase = p,
                                  !.executed = @ \cup {p},
                                  !.errors = @ + err]
    /\ UNCHANGED <<executions, invocations, pc, args, uid, env, context,
                   configuration, skip_phases_until, only_with_tags,
                   logs_archived, outcome>>

\* A phase ends the run: an error under a failing policy, or an inhibitor.
PhaseFails ==
    /\ UNCHANGED actorVars
    /\ pc = "running"
    /\ workflow.phase < NumPhases
    /\ LET p == workflow.phase + 1
       IN  /\ archive' = EnterPhase(archive, workflow.run_context, env, p)
           /\ \E err \in {0, 1} :
                /\ workflow.errors + err <= MaxErrors
                /\ workflow' = [workflow EXCEPT
                                  !.executed = @ \cup {p},
                                  !.errors = @ + err,
                                  !.failure = TRUE,
                                  !.returned = TRUE]
    /\ pc' = "save_answers"
    /\ UNCHANGED <<executions, audit, invocations, args, uid, env, context,
                   configuration, skip_phases_until, only_with_tags,
                   logs_archived, outcome>>

\* Actor code raises inside workflow.run: the run does not return.
PhaseRaises ==
    /\ UNCHANGED actorVars
    /\ pc = "running"
    /\ workflow.phase < NumPhases
    /\ LET p == workflow.phase + 1
       IN  /\ archive' = EnterPhase(archive, workflow.run_context, env, p)
           /\ \E f \in BOOLEAN :
                workflow' = [workflow EXCEPT !.executed = @ \cup {p},
                                             !.raised = TRUE,
                                             !.failure = f]
    /\ pc' = "boundary"
    /\ UNCHANGED <<executions, audit, invocations, args, uid, env, context,
                   configuration, skip_phases_until, only_with_tags,
                   logs_archived, outcome>>

\* A phase after the first completes and reboots the host: the process ends
\* inside workflow.run.
PhaseReboots ==
    /\ UNCHANGED actorVars
    /\ pc = "running"
    /\ workflow.phase < NumPhases
    /\ workflow.phase + 1 > 1
    /\ LET p == workflow.phase + 1
       IN  /\ audit' = CheckpointPhase(audit, workflow.run_context, p)
    /\ pc' = "killed"
    /\ ProcessGone
    /\ UNCHANGED <<executions, archive, invocations>>

\* The last phase is done: workflow.run returns.
RunReturns ==
    /\ UNCHANGED actorVars
    /\ pc = "running"
    /\ workflow.phase = NumPhases
    /\ workflow' = [workflow EXCEPT !.returned = TRUE]
    /\ pc' = "save_answers"
    /\ UNCHANGED <<durable, invocations, args, uid, env, context, configuration,
                   skip_phases_until, only_with_tags, logs_archived, outcome>>

\* line 79, beautify_actor_exception(): the exception of the actor is caught
\* and formatted; it is then either raised again as one summary error, which
\* nothing in upgrade() catches, or swallowed.
Boundary ==
    /\ UNCHANGED actorVars
    /\ pc = "boundary"
    /\ \/ /\ pc' = "crashed"
          /\ outcome' = [outcome EXCEPT !.error = "pipeline_failure"]
       \/ /\ pc' = "save_answers"
          /\ UNCHANGED outcome
    /\ UNCHANGED <<durable, invocations, args, uid, env, context, configuration,
                   skip_phases_until, only_with_tags, logs_archived, workflow>>

\* lines 89-90
SaveAnswers ==
    /\ UNCHANGED actorVars
    /\ pc = "save_answers"
    /\ workflow' = save_answers(workflow)
    /\ pc' = "report"
    /\ UNCHANGED <<durable, invocations, args, uid, env, context, configuration,
                   skip_phases_until, only_with_tags, logs_archived, outcome>>

\* lines 91-96: report_errors, report_inhibitors, report files, report_info
Report ==
    /\ UNCHANGED actorVars
    /\ pc = "report"
    /\ outcome' = [outcome EXCEPT !.reported = TRUE,
                                  !.reported_errors = workflow.errors,
                                  !.reported_fail = workflow.failure]
    /\ pc' = "exit"
    /\ UNCHANGED <<durable, invocations, args, uid, env, context, configuration,
                   skip_phases_until, only_with_tags, logs_archived, workflow>>

\* lines 98-99
Exit ==
    /\ UNCHANGED actorVars
    /\ pc = "exit"
    /\ outcome' = [outcome EXCEPT !.exit = ExitCode(workflow)]
    /\ pc' = "exited"
    /\ UNCHANGED <<durable, invocations, args, uid, env, context, configuration,
                   skip_phases_until, only_with_tags, logs_archived, workflow>>

\* The process is killed from outside, at any point of upgrade().
Kill ==
    /\ UNCHANGED actorVars
    /\ pc \in Live
    /\ pc' = "killed"
    /\ ProcessGone
    /\ UNCHANGED <<durable, invocations>>

\* The process has ended (exit, CommandError or an uncaught exception) and
\* its memory is released.
ProcessEnds ==
    /\ UNCHANGED actorVars
    /\ pc \in {"exited", "error", "crashed"}
    /\ pc' = "idle"
    /\ ProcessGone
    /\ UNCHANGED <<durable, invocations>>

Next ==
    \/ Invoke \/ Resume \/ Fresh \/ Configure \/ LoadAnswers
    \/ RunStart \/ PhaseCompletes \/ PhaseFails \/ PhaseRaises \/ PhaseReboots
    \/ RunReturns \/ Boundary \/ SaveAnswers \/ Report \/ Exit \/ Kill
    \/ ProcessEnds

Spec == Init /\ [][Next]_vars

\* ================================================= the MySQL setup actor
\* clmysqlrepositorysetup.py, process()

\* --------------------------------------------------------- its inputs
Families == {"cloudlinux", "mariadb", "mysql"}

\* The name of a directory entry, by what lines 53, 63, 104 and 138 test of
\* it: the families whose marker it contains and the suffixes it ends with.
FileNames ==
    [markers : SUBSET Families, leapp_copy : BOOLEAN, repofile : BOOLEAN]

\* The repository ids of a repofile: the server repository and the client
\* repository, under the spelling of the comment of line 81 and under the
\* spelling of the literal of line 84.
RepoIds == {"mysql", "mysqlclient", "mysqclient"}

\* A repository of a parsed repofile.  baseurl: "yum" when the url contains
\* 'yum', "plain" when it does not; name: "old" when the name contains one of
\* OLD_MYSQL_VERSIONS.
Repos ==
    [repoid : RepoIds, enabled : BOOLEAN, baseurl : {"yum", "plain"},
     name : {"new", "old"}]

\* repofile_data.data
RepoLists == UNION {[1..n -> Repos] : n \in 0..MaxRepos}

\* What get_clmysql_type() may return: nothing, a type with a module stream,
\* a type without one.
GovernorTypes == {"None", "mysql80", "auto"}

\* MODULE_STREAMS.keys()
ModuleStreams == {"mysql80"}

\* --------------------------------------------------------- its helpers

\* line 53: `endswith(LEAPP_COPY_SUFFIX) or not endswith(REPOFILE_SUFFIX)'
Skipped(fname) == fname.leapp_copy \/ ~fname.repofile

\* lines 63, 104, 138: the if / elif / elif chain over the markers
Family(fname) ==
    IF "cloudlinux" \in fname.markers THEN "cloudlinux"
    ELSE IF "mariadb" \in fname.markers THEN "mariadb"
    ELSE IF "mysql" \in fname.markers THEN "mysql"
    ELSE "none"

\* lines 77, 112, 145: `repo.repoid = repo.repoid + '-8''
Append8(id) ==
    CASE id = "mysql"       -> "mysql-8"
      [] id = "mysqlclient" -> "mysqlclient-8"
      [] id = "mysqclient"  -> "mysqclient-8"

CustomTargetRepository(id, en) ==
    [kind |-> "CustomTargetRepository", repoid |-> id, enabled |-> en]

CustomTargetRepositoryFile(family) ==
    [kind |-> "CustomTargetRepositoryFile", family |-> family]

RpmTransactionTasks == [kind |-> "RpmTransactionTasks"]

InstalledMySqlTypes(types, version) ==
    [kind |-> "InstalledMySqlTypes", types |-> types, version |-> version]

\* line 84: `if repo.enabled or repo.repoid == 'mysqclient-8''
ClKeeps(r) == r.enabled \/ Append8(r.repoid) = "mysqclient-8"

\* lines 117, 148: `if repo.enabled'
Keeps(r) == r.enabled

\* lines 87-92: the entries of a CloudLinux repofile, all with enabled=True
ClEntries(repos) ==
    LET kept == SelectSeq(repos, ClKeeps)
    IN  [i \in 1..Len(kept) |->
            CustomTargetRepository(Append8(kept[i].repoid), TRUE)]

\* lines 119-124, 173-178: the entries of a MariaDB or MySQL repofile, with
\* enabled=repo.enabled
Entries(repos) ==
    LET kept == SelectSeq(repos, Keeps)
    IN  [i \in 1..Len(kept) |->
            CustomTargetRepository(Append8(kept[i].repoid), kept[i].enabled)]

\* lines 94, 126, 180: `any(repo.enabled for repo in repofile_data.data)'
AnyEnabled(repos) == \E i \in DOMAIN repos : repos[i].enabled

\* lines 113-114: `url_parts = repo.baseurl.split('yum')' has one part when
\* the url does not contain 'yum', and `url_parts[1]' raises IndexError.
\* The index of the first repository that raises, 0 when none does.
FirstIndexError(repos) ==
    IF \E i \in DOMAIN repos : repos[i].baseurl = "plain"
    THEN CHOOSE i \in DOMAIN repos :
            /\ repos[i].baseurl = "plain"
            /\ \A j \in 1..(i - 1) : repos[j].baseurl # "plain"
    ELSE 0

\* lines 152-171: one inhibitor report per enabled repository of an old version
OldVersionReports(repos) ==
    LET old(r) == r.enabled /\ r.name = "old"
        hit == SelectSeq(repos, old)
    IN  [i \in 1..Len(hit) |-> "old_mysql_version"]

\* The repositories of a parsed repofile, as the claims refer to them.
Parsed(family, repos) ==
    [i \in 1..Len(repos) |->
        [family |-> family, repoid |-> repos[i].repoid,
         enabled |-> repos[i].enabled]]

\* lines 94-101, 126-135, 180-189: the end of the branch of one repofile
CloseRepofile(family, repos) ==
    IF AnyEnabled(repos)
    THEN /\ mysql_types' = mysql_types \cup {family}
         /\ produced' = Append(produced, CustomTargetRepositoryFile(family))
    ELSE UNCHANGED <<mysql_types, produced>>

\* --------------------------------------------------------- its steps

\* process() is called on a host: the locals are fresh, the directory is not
\* read yet.
ActorInit ==
    /\ UpgradeIdle(FALSE)
    /\ apc = "listing"
    /\ governor \in GovernorTypes
    /\ ActorLocals

\* lines 51-54: an entry that is a Leapp copy or no repofile is passed over.
SkipEntry ==
    /\ apc = "listing"
    /\ entries < MaxFiles
    /\ \E fname \in FileNames : Skipped(fname)
    /\ entries' = entries + 1
    /\ UNCHANGED <<apc, governor, mysql_types, clmysql_type, custom_repo_msgs,
                   produced, reports, parsed>>
    /\ UNCHANGED upgradeVars

\* lines 51-63, 104, 138: a repofile whose name has no marker is not parsed.
OtherRepofile ==
    /\ apc = "listing"
    /\ entries < MaxFiles
    /\ \E fname \in FileNames : ~Skipped(fname) /\ Family(fname) = "none"
    /\ entries' = entries + 1
    /\ UNCHANGED <<apc, governor, mysql_types, clmysql_type, custom_repo_msgs,
                   produced, reports, parsed>>
    /\ UNCHANGED upgradeVars

\* lines 63-101: a CloudLinux repofile
ClRepofile ==
    /\ apc = "listing"
    /\ entries < MaxFiles
    /\ \E fname \in FileNames, repos \in RepoLists :
        /\ ~Skipped(fname)
        /\ Family(fname) = "cloudlinux"
        /\ custom_repo_msgs' = custom_repo_msgs \o ClEntries(repos)
        /\ clmysql_type' = IF ClEntries(repos) # <<>> THEN governor
                           ELSE clmysql_type
        /\ CloseRepofile("cloudlinux", repos)
        /\ parsed' = parsed \o Parsed("cloudlinux", repos)
    /\ entries' = entries + 1
    /\ UNCHANGED <<apc, governor, reports>>
    /\ UNCHANGED upgradeVars

\* lines 104-135: a MariaDB repofile; a url without 'yum' ends process() with
\* an IndexError in the middle of the repofile.
MariaRepofile ==
    /\ apc = "listing"
    /\ entries < MaxFiles
    /\ \E fname \in FileNames, repos \in RepoLists :
        /\ ~Skipped(fname)
        /\ Family(fname) = "mariadb"
        /\ LET bad == FirstIndexError(repos)
           IN  IF bad = 0
               THEN /\ custom_repo_msgs' = custom_repo_msgs \o Entries(repos)
                    /\ CloseRepofile("mariadb", repos)
                    /\ parsed' = parsed \o Parsed("mariadb", repos)
                    /\ apc' = "listing"
               ELSE /\ custom_repo_msgs' = custom_repo_msgs
                            \o Entries(SubSeq(repos, 1, bad - 1))
                    /\ parsed' = parsed \o Parsed("mariadb", repos)
                    /\ apc' = "crashed"
                    /\ UNCHANGED <<mysql_types, produced>>
    /\ entries' = entries + 1
    /\ UNCHANGED <<governor, clmysql_type, reports>>
    /\ UNCHANGED upgradeVars

\* lines 138-189: a MySQL repofile
MySqlRepofile ==
    /\ apc = "listing"
    /\ entries < MaxFiles
    /\ \E fname \in FileNames, repos \in RepoLists :
        /\ ~Skipped(fname)
        /\ Family(fname) = "mysql"
        /\ reports' = reports \o OldVersionReports(repos)
        /\ custom_repo_msgs' = custom_repo_msgs \o Entries(repos)
        /\ CloseRepofile("mysql", repos)
        /\ parsed' = parsed \o Parsed("mysql", repos)
    /\ entries' = entries + 1
    /\ UNCHANGED <<apc, governor, clmysql_type>>
    /\ UNCHANGED upgradeVars

\* lines 229-239
ModuleTasks(types, version) ==
    IF "cloudlinux" \in types /\ version \in ModuleStreams
    THEN <<RpmTransactionTasks>>
    ELSE <<>>

\* lines 191-244: the directory is exhausted, the code after the loop runs.
Finish ==
    /\ apc = "listing"
    /\ reports' = reports
            \o (IF mysql_types = {} THEN <<>> ELSE <<"backup_recommended">>)
            \o (IF Cardinality(mysql_types) > 1 THEN <<"multiple_types">>
                ELSE <<>>)
    /\ produced' = produced
            \o (IF mysql_types = {} THEN <<>> ELSE custom_repo_msgs)
            \o ModuleTasks(mysql_types, clmysql_type)
            \o <<InstalledMySqlTypes(mysql_types, clmysql_type)>>
    /\ apc' = "done"
    /\ UNCHANGED <<entries, governor, mysql_types, clmysql_type,
                   custom_repo_msgs, parsed>>
    /\ UNCHANGED upgradeVars

ActorNext ==
    \/ SkipEntry \/ OtherRepofile \/ ClRepofile \/ MariaRepofile
    \/ MySqlRepofile \/ Finish

SpecActor == ActorInit /\ [][ActorNext]_vars


\* ------------------------------------------------------------- claims

\* The uuid the running process drew at line 34.
FreshUuid == invocations

\* The ids of the stored records of the attempt in flight.
FreshIds == {executions[i].context : i \in DOMAIN executions} \ {OldId}

HasRecord(execs, ctx, conf) ==
    \E i \in DOMAIN execs :
        execs[i] = [context |-> ctx, kind |-> "upgrade", configuration |-> conf]

\* C1: in a fresh invocation the Execution Record (executionId, 'upgrade',
\* configuration) is in the store when workflow.run is about to be invoked and
\* from then on, it is what a lookup of the last upgrade execution returns, and
\* no step of any process, a kill or a reboot included, removes or changes a
\* stored record: a later --resume finds it.
C1_RecordStoredBeforeRun ==
    /\ []((~args.resume /\ (pc = "run" \/ workflow.ran))
            => /\ HasRecord(executions, context, configuration)
               /\ fetch_last_upgrade_context(executions, None) =
                    [context |-> context, configuration |-> configuration])
    /\ [][\A i \in DOMAIN executions :
            i \in DOMAIN executions' /\ executions'[i] = executions[i]]_vars

\* C1 witness: a resumed invocation runs the pipeline under the record that a
\* fresh invocation of this attempt stored before it was killed.
C1_Witness ==
    /\ args.resume /\ pc = "running"
    /\ context \in FreshIds
    /\ HasRecord(executions, context, configuration)

\* The lookup of a resumed invocation, which root alone reaches, finds no
\* record.
ResumeFindsNothing ==
    /\ args.resume
    /\ ~NotRoot(uid)
    /\ fetch_last_upgrade_context(executions, args.resume_context).context = None

\* C2: a resumed invocation whose lookup finds no record ends with the
\* 'no resumable execution' error: the uuid it drew is in no stored record and
\* was not exported as the execution identity, the answers were not loaded and
\* workflow.run was not invoked.
C2_NoResumableExecution ==
    (ResumeFindsNothing /\ pc # "branch")
        => /\ pc = "error"
           /\ outcome.error = "no_resumable"
           /\ context = None
           /\ \A i \in DOMAIN executions : executions[i].context # FreshUuid
           /\ env.LEAPP_EXECUTION_ID # FreshUuid
           /\ env.LEAPP_EXECUTION_ID \in {None, OldId}
           /\ ~workflow.loaded
           /\ ~workflow.ran

\* C2 witness: --resume on a store that holds a record, for a resume context
\* that is not stored.
C2_Witness ==
    /\ pc = "error" /\ outcome.error = "no_resumable"
    /\ executions # <<>>

\* C3: every invocation of the attempt passes the id of the fresh invocation to
\* workflow.run: a fresh one the uuid it drew and stored, a resumed one the id
\* of a stored record (the attempt in flight when no resume context is given),
\* never the uuid it drew itself.
C3_StableExecutionId ==
    workflow.ran =>
        IF args.resume
        THEN /\ workflow.run_context # FreshUuid
             /\ \E i \in DOMAIN executions :
                    executions[i].context = workflow.run_context
             /\ (args.resume_context = None /\ FreshIds # {})
                    => FreshIds = {workflow.run_context}
        ELSE /\ workflow.run_context = FreshUuid
             /\ FreshIds = {FreshUuid}

\* C3 witness: the second resumed invocation of the attempt runs the pipeline.
C3_Witness ==
    /\ args.resume /\ workflow.ran
    /\ args.resume_context = None
    /\ invocations = 3
    /\ workflow.run_context = 1

\* C4: a resumed invocation passes as skip_phases_until the last phase the
\* audit log of the execution shows as completed, a fresh one passes None.
C4_MarkerIsLastCompleted ==
    /\ (args.resume /\ pc \in {"configure", "load_answers", "run"})
            => skip_phases_until = audit[context]
    /\ workflow.ran
            => /\ workflow.run_skip = skip_phases_until
               /\ workflow.run_skip <= audit[workflow.run_context]
               /\ ~args.resume => workflow.run_skip = None

\* C4 witness: a resumed invocation is run with the second phase as marker.
C4_Witness ==
    /\ args.resume /\ pc = "running"
    /\ workflow.run_skip = 2
    /\ workflow.run_context \in FreshIds

\* C5: a resumed run skips only phases that completed in an earlier invocation
\* and executes no phase at or before its marker, and over the invocations of
\* an execution the last completed phase never moves back.
C5_MarkerMonotonic ==
    /\ []((workflow.ran /\ args.resume)
            => /\ \A p \in Phases :
                    p <= workflow.run_skip => p <= audit[workflow.run_context]
               /\ \A p \in workflow.executed : p > workflow.run_skip)
    /\ [][\A c \in Contexts : audit'[c] >= audit[c]]_vars

\* C5 witness: fresh run, reboot, resumed run, reboot, resumed run that
\* executes the phase after its marker.
C5_Witness ==
    /\ args.resume /\ workflow.ran
    /\ invocations = 3
    /\ workflow.run_skip = 2
    /\ workflow.executed = {3}

\* C6: on a resumed invocation, when workflow.run is invoked, LEAPP_DEBUG = '1'
\* implies LEAPP_VERBOSE = '1'.
C6_DebugImpliesVerbose ==
    (args.resume /\ workflow.ran)
        => (env.LEAPP_DEBUG = "1" => env.LEAPP_VERBOSE = "1")

\* The flags as they are when derived from the restored environment.
FlagsAfterRestore(e, conf, snap) ==
    DeriveVerbose(DeriveDebug(restore_leapp_env_vars(e, snap), conf), conf)

\* C7: on a resumed invocation the debug and verbose flags are those derived
\* from the environment after the checkpoint was restored: debug is the
\* environment value or the stored configuration or '0', verbose is debug or
\* the environment value or the stored configuration or '0'.
C7_FlagsDerivedAfterRestore ==
    [][(pc = "branch" /\ args.resume /\ pc' = "configure")
        => LET want == FlagsAfterRestore(env, configuration', archive[context'])
           IN  /\ env'.LEAPP_DEBUG = want.LEAPP_DEBUG
               /\ env'.LEAPP_VERBOSE = want.LEAPP_VERBOSE]_vars

\* C8: whenever workflow.run was invoked the answers had been loaded, and once
\* it has returned, with or without errors, the invocation goes on to
\* workflow.save_answers and has called it before it reports and exits.
C8_AnswersRoundTrip ==
    /\ workflow.ran => workflow.loaded
    /\ workflow.saved => workflow.ran
    /\ workflow.returned
            => pc \in {"save_answers", "report", "exit", "exited"}
    /\ (workflow.returned /\ pc \in {"report", "exit", "exited"})
            => workflow.saved

\* C8 witness: a run that reported an error has exited with code 1 after the
\* answers were saved.
C8_Witness ==
    /\ pc = "exited" /\ workflow.returned
    /\ workflow.errors >= 1 /\ outcome.exit = "1"
    /\ workflow.saved

\* C9: an invocation in which actor code raised inside workflow.run ends only
\* after the answers were saved and the report was produced, with a failure
\* exit code.
C9_FailureIsReported ==
    (workflow.raised /\ pc \in {"crashed", "exited"})
        => /\ workflow.saved
           /\ outcome.reported
           /\ outcome.exit = "1"

BeforeRun == {"configure", "load_answers", "run"}

RecordsOf(execs, ctx) ==
    Cardinality({i \in DOMAIN execs : execs[i].context = ctx})

\* C13: a fresh invocation that passed the privilege check has exactly one
\* record of its execution in the store from the end of its first step on,
\* whatever its outcome; the store changes in that step only, by that one
\* record appended; no step of a resumed invocation changes the store.
C13_OneRecordPerFreshInvocation ==
    /\ []((~args.resume /\ uid = 0
              /\ pc \in (Live \ {"branch"}) \cup {"exited", "error", "crashed"})
            => RecordsOf(executions, context) = 1)
    /\ [][\/ executions' = executions
          \/ /\ pc = "branch" /\ ~args.resume /\ pc' = "configure"
             /\ Len(executions') = Len(executions) + 1
             /\ SubSeq(executions', 1, Len(executions)) = executions
             /\ executions'[Len(executions')].context = context]_vars
    /\ [][args.resume => executions' = executions]_vars

\* C13 witness: a resumed invocation has run to its exit and the store holds
\* the finished attempt of the past and the one record of the fresh invocation
\* it resumed.
C13_Witness ==
    /\ args.resume /\ pc = "exited"
    /\ context \in FreshIds
    /\ Len(executions) = 2
    /\ RecordsOf(executions, context) = 1

\* C14: in a resumed invocation the configuration that every later step uses
\* (debug and verbose resolution, whitelist, unsupported warning) is the one
\* of the stored record of the resumed execution, not the one prepared from
\* the command line of this invocation: the resume step resolves the flags
\* with the stored configuration and past it the local configuration is the
\* stored one.
C14_StoredConfigurationOnResume ==
    /\ []((args.resume /\ pc \in Live \ {"branch"})
            => HasRecord(executions, context, configuration))
    /\ [][(pc = "branch" /\ args.resume /\ pc' = "configure")
            => LET found == fetch_last_upgrade_context(executions,
                                                       args.resume_context)
               IN  /\ configuration' = found.configuration
                   /\ env' = ResumeEnvironment(env, found.configuration,
                                               archive[found.context])]_vars

\* C14 witness: a resumed invocation of an attempt of this history stands
\* before workflow.run with the stored configuration, which asks for debug.
C14_Witness ==
    /\ args.resume /\ pc = "run"
    /\ context \in FreshIds
    /\ configuration.debug = "1"
    /\ HasRecord(executions, context, configuration)

\* The positions of upgrade() from the call of workflow.run to the exit.
FromRun == {"run", "running", "boundary", "save_answers", "report", "exit"}

\* C15: on the fresh and on the resumed path alike, when workflow.run is about
\* to be invoked and from then on LEAPP_EXECUTION_ID holds the context handed
\* to workflow.run, whatever the initial environment or the restored
\* checkpoint held.
C15_ExecutionIdMatchesContext ==
    /\ pc = "run" => (context # None /\ env.LEAPP_EXECUTION_ID = context)
    /\ workflow.ran
            => /\ workflow.run_context = context
               /\ env.LEAPP_EXECUTION_ID = workflow.run_context

\* C15 witness: a resumed invocation restored the checkpoint of an attempt of
\* this history and runs the pipeline under its identity.
C15_Witness ==
    /\ args.resume /\ workflow.ran
    /\ context \in FreshIds
    /\ archive[context].archived
    /\ env.LEAPP_EXECUTION_ID = context

\* C16: when workflow.run is invoked LC_ALL and LANG both hold en_US.UTF-8,
\* whatever the host or a restored checkpoint held, and from the invocation of
\* workflow.run to the exit of the process no step writes the environment.
C16_EnvironmentFixedFromRun ==
    /\ []((pc = "run" \/ workflow.ran)
            => (env.LC_ALL = Locale /\ env.LANG = Locale))
    /\ [][(pc \in FromRun /\ pc' \in FromRun \cup {"exited", "crashed"})
            => env' = env]_vars

\* C16 witness: a fresh invocation, started with the locale of the host, ran
\* the pipeline, reported and exited under the forced locale.
C16_Witness ==
    /\ ~args.resume /\ pc = "exited"
    /\ workflow.ran /\ outcome.reported
    /\ env.LC_ALL = Locale /\ env.LANG = Locale

ClaimedEntries(repos) ==
    LET client(r) == r.family = "cloudlinux" /\ r.repoid = "mysqlclient"
        yields(r) == client(r) \/ r.enabled
        kept == SelectSeq(repos, yields)
    IN  [i \in 1..Len(kept) |->
            CustomTargetRepository(Append8(kept[i].repoid), TRUE)]

\* C18: when process() has returned, the mysqlclient repository of every
\* parsed CloudLinux repofile has a CustomTargetRepository entry with
\* enabled=True, disabled in the repofile or not, and every other repository
\* has an entry exactly when it is enabled in its repofile.
C18_ClientRepositoryForcedOn ==
    apc = "done" => custom_repo_msgs = ClaimedEntries(parsed)

\* The families of which some parsed repofile has an enabled repository.
EnabledFamilies(repos) ==
    {repos[i].family : i \in {j \in DOMAIN repos : repos[j].enabled}}

\* The messages of one kind among the produced ones.
ProducedOf(kind) == SelectSeq(produced, LAMBDA m : m.kind = kind)

\* C19: when process() has ended, it produced exactly one InstalledMySqlTypes
\* message, as its last output, with the families of which some parsed
\* repofile has an enabled repository as its types; when there is no such
\* family it produced nothing else and created no report.  The entries the
\* loop passes over are not among the parsed ones.
C19_OneTypesMessageLast ==
    apc \in {"done", "crashed"}
        => /\ produced # <<>>
           /\ produced[Len(produced)].kind = "InstalledMySqlTypes"
           /\ Len(ProducedOf("InstalledMySqlTypes")) = 1
           /\ produced[Len(produced)].types = EnabledFamilies(parsed)
           /\ EnabledFamilies(parsed) = {}
                => (Len(produced) = 1 /\ reports = <<>>)

====
